---- MODULE Spec2Model ----
(***************************************************************************)
(* Kotonoha Studio backend (app/main.py): the per-user daily quota         *)
(* (check_quota over the module-level dict _usage) and the chat pipeline   *)
(* of POST /agent/chat that calls it.                                      *)
(*                                                                         *)
(* agent_chat is an `async def` handler, so every request runs on the one  *)
(* event loop of the process.  check_quota is a plain function called      *)
(* without any await, and call_llm awaits nothing before it returns (the   *)
(* OpenAI client is the synchronous one), so a handler keeps the event     *)
(* loop from its first line to its response.  `loop` is that event loop:   *)
(* empty, or the frame of the one handler that is running.                 *)
(***************************************************************************)
EXTENDS Integers, FiniteSets, Sequences, TLC

VARIABLES
    usage,           \* _usage: user_id -> [count, reset]; DOMAIN usage = the stored keys
    now,             \* the value datetime.now(timezone.utc) returns, in ticks
    pending,         \* user_id -> number of chat requests received and not yet started
    loop,            \* <<>> or <<frame>>: the handler running on the event loop
    llm_configured,  \* LLM_API_KEY and LLM_MODEL are both set (read once at import)
    tts_configured,  \* LLM_API_KEY and LLM_TTS_MODEL are both set (read once at import)
    window,          \* history: user_id -> [start, admitted, rejected] of the current window
    batch,           \* history: the tally of a burst of requests launched together
    probe,           \* <<>> or <<[mode, system_prompt]>>: a direct call of build_system_prompt
    log,             \* history: <<>>, or <<[at]>>, <<[by]>>: the admitted calls per tick, per browser session
    page             \* one playground page: [history, historyIndex, fetches, input, mode]

vars == <<usage, now, pending, loop, llm_configured, tts_configured, window, batch,
          probe, log, page>>

(* ---------------------------- bounds ---------------------------------- *)
TicksPerDay == 2     \* clock resolution: ticks in 24 hours
MaxClock == 3        \* the clock stops advancing here
MaxPending == 1      \* requests waiting for the event loop
MaxBurst == 12       \* size of a burst of concurrent requests
MaxHistory == 3      \* sends of one playground page
MaxFetches == 2      \* fetches of one playground page under way together

(* --------------------------- constants -------------------------------- *)
FREE_LIMIT_PER_DAY == 10
DocumentedLimit == 5

Users == {"u1", "u2"}
BurstUser == "u1"

None == << >>
Some(x) == <<x>>

OneDay == TicksPerDay

Min(a, b) == IF a <= b THEN a ELSE b

(* ------------------------- the quota store ---------------------------- *)
\* _usage.get(user_id): None, or the stored record
Get(store, user_id) ==
    IF user_id \in DOMAIN store THEN Some(store[user_id]) ELSE None

\* _usage[user_id] = rec
Put_Shared(store, user_id, rec) ==
    [k \in (DOMAIN store) \cup {user_id} |-> rec]
Put_Single(store, user_id, rec) ==
    [k \in {user_id} |-> rec]
Put(store, user_id, rec) ==
    [k \in (DOMAIN store) \cup {user_id} |-> IF k = user_id THEN rec ELSE store[k]]

\* the HTTPException of lines 43-50: status 429, a fixed message that says
\* the free uses of today are used up and that the author sells membership;
\* no headers argument
QuotaExceeded ==
    [status_code |-> 429,
     detail      |-> {"free_uses_of_today_used_up", "contact_author_for_membership"},
     headers     |-> {}]

\* `not info or now >= info["reset"]`
Expired_StartOfWindow(info, t) == info = None \/ t >= info[1].reset - OneDay
Expired_Strict(info, t) == info = None \/ t > info[1].reset
Expired(info, t) == info = None \/ t >= info[1].reset

\* `info["count"] >= FREE_LIMIT_PER_DAY`
OverLimit_OffByOne(rec) == rec.count > FREE_LIMIT_PER_DAY
OverLimit(rec) == rec.count >= FREE_LIMIT_PER_DAY

\* {"count": 1, "reset": now + timedelta(days=1)}
NewRecord_Zero(t) == [count |-> 0, reset |-> t + OneDay]
NewRecord_NoDay(t) == [count |-> 1, reset |-> t]
NewRecord(t) == [count |-> 1, reset |-> t + OneDay]

\* info["count"] += 1
Increment_Keep(rec) == rec
Increment_Extend(rec) == [count |-> rec.count + 1, reset |-> rec.reset + 1]
Increment(rec) == [rec EXCEPT !.count = @ + 1]

\* check_quota(user_id) with the clock at t: the store it leaves and the
\* exception it raises (None when it returns)
check_quota_ConfigFirst(store, user_id, t) ==
    LET info == Get(store, user_id) IN
    IF ~llm_configured THEN [usage |-> store, exc |-> None]
    ELSE IF Expired(info, t)
      THEN [usage |-> Put(store, user_id, NewRecord(t)), exc |-> None]
      ELSE IF OverLimit(info[1])
        THEN [usage |-> store, exc |-> Some(QuotaExceeded)]
        ELSE [usage |-> Put(store, user_id, Increment(info[1])), exc |-> None]
check_quota_RejectExtends(store, user_id, t) ==
    LET info == Get(store, user_id) IN
    IF Expired(info, t)
      THEN [usage |-> Put(store, user_id, NewRecord(t)), exc |-> None]
      ELSE IF OverLimit(info[1])
        THEN [usage |-> Put(store, user_id, [info[1] EXCEPT !.reset = t + OneDay]),
              exc |-> Some(QuotaExceeded)]
        ELSE [usage |-> Put(store, user_id, Increment(info[1])), exc |-> None]
check_quota(store, user_id, t) ==
    LET info == Get(store, user_id) IN
    IF Expired(info, t)
      THEN [usage |-> Put(store, user_id, NewRecord(t)), exc |-> None]
      ELSE IF OverLimit(info[1])
        THEN [usage |-> store, exc |-> Some(QuotaExceeded)]
        ELSE [usage |-> Put(store, user_id, Increment(info[1])), exc |-> None]

(* ------------------------- responses ---------------------------------- *)
ConfigMissing ==
    [status_code |-> 500, detail |-> {"LLM configuration missing"}, headers |-> {}]
LLMFailed ==
    [status_code |-> 500, detail |-> {"LLM request failed", "provider_error_text"},
     headers |-> {}]
ChatResponse ==
    [status_code |-> 200, detail |-> {"reply"}, headers |-> {}]
\* ChatResponse(reply=None) raises pydantic's ValidationError in agent_chat,
\* outside every try: the server answers with its plain 500 page
InternalServerError ==
    [status_code |-> 500, detail |-> {"Internal Server Error"}, headers |-> {}]

\* how client.chat.completions.create can end: a completion whose message
\* has text ("ok"), a completion whose message.content is None
\* ("no_content"), or an exception ("error")
ProviderOutcomes == {"ok", "no_content", "error"}

\* the texts a provider generates
Texts == {"text", " text "}

\* completion.choices[0].message.content, None when the call raised
Content(outcome, text) == IF outcome = "ok" THEN Some(text) ELSE None

\* the reply field of the ChatResponse the caller gets, None when there is
\* no ChatResponse: call_llm returns the content and agent_chat passes it on
Reply_Stripped(outcome, text) == IF outcome = "ok" THEN Some("text") ELSE None
Reply(outcome, text) == Content(outcome, text)

\* call_llm and the return of agent_chat: the response the handler ends with
call_llm_NoConfigCheck(configured, outcome) ==
    IF outcome = "ok" THEN ChatResponse
    ELSE IF outcome = "no_content" THEN InternalServerError
    ELSE LLMFailed
call_llm(configured, outcome) ==
    IF ~configured THEN ConfigMissing
    ELSE IF outcome = "ok" THEN ChatResponse
    ELSE IF outcome = "no_content" THEN InternalServerError
    ELSE LLMFailed

(* ------------------------- request validation ------------------------ *)
\* ChatRequest.mode: the Literal of the request model
LiteralModes ==
    {"daily", "service", "office", "campus", "family", "parenting", "medical",
     "housing", "travel", "kansai", "culture", "gossip", "comfort_soft",
     "comfort_calm", "tutor", "otaku_waifu", "otaku_boyfriend"}

\* the body FastAPI parses into ChatRequest before agent_chat is called: a
\* mode outside the Literal fails validation
ValidRequest_AnyString(req) == TRUE
ValidRequest(req) == req.mode \in LiteralModes

\* the response FastAPI gives to a body that fails validation
ValidationError ==
    [status_code |-> 422, detail |-> {"literal_error"}, headers |-> {}]

(* ------------------------- personas ----------------------------------- *)
\* the `if mode == "tutor" ... elif ...` chain, written twice in the source
\* (build_system_prompt and agent_chat)
NormalizeMode_NoWaifu(mode) ==
    IF mode = "tutor" THEN "daily"
    ELSE IF mode = "otaku_boyfriend" THEN "comfort_calm"
    ELSE mode
NormalizeMode(mode) ==
    IF mode = "tutor" THEN "daily"
    ELSE IF mode = "otaku_waifu" THEN "comfort_soft"
    ELSE IF mode = "otaku_boyfriend" THEN "comfort_calm"
    ELSE mode

\* the modes build_system_prompt has a branch for
PersonaModes ==
    {"daily", "service", "office", "campus", "family", "parenting", "medical",
     "housing", "travel", "kansai", "culture", "gossip", "comfort_soft",
     "comfort_calm"}

\* the text build_system_prompt returns, named by its persona; the last
\* return is the generic assistant
GenericPrompt_Empty == ""
GenericPrompt == "generic_japanese_learning_assistant"

PersonaPrompt(mode) ==
    CASE mode = "daily"        -> "kotonoha_daily"
      [] mode = "service"      -> "kotonoha_service"
      [] mode = "office"       -> "kotonoha_office"
      [] mode = "campus"       -> "kotonoha_campus"
      [] mode = "family"       -> "kotonoha_family"
      [] mode = "parenting"    -> "kotonoha_parenting"
      [] mode = "medical"      -> "kotonoha_medical"
      [] mode = "housing"      -> "kotonoha_housing"
      [] mode = "travel"       -> "kotonoha_travel"
      [] mode = "kansai"       -> "kotonoha_kansai"
      [] mode = "culture"      -> "kotonoha_culture"
      [] mode = "gossip"       -> "kotonoha_gossip"
      [] mode = "comfort_soft" -> "kotonoha_comfort_soft"
      [] mode = "comfort_calm" -> "kotonoha_comfort_calm"

build_system_prompt(mode) ==
    LET m == NormalizeMode(mode) IN
    IF m \in PersonaModes THEN PersonaPrompt(m) ELSE GenericPrompt

\* the modes that share the four-part structure instruction
StructuredModes ==
    {"daily", "service", "office", "campus", "family", "parenting", "housing",
     "travel"}

\* the instruction text agent_chat puts in front of req.message: a sequence
\* with the name of the text, or the empty sequence in the else branch
Template(mode) ==
    IF mode \in StructuredModes THEN <<"structure_four_parts">>
    ELSE IF mode = "medical" THEN <<"structure_medical">>
    ELSE IF mode = "kansai" THEN <<"structure_kansai">>
    ELSE IF mode = "culture" THEN <<"structure_culture">>
    ELSE IF mode = "gossip" THEN <<"structure_gossip">>
    ELSE IF mode = "comfort_soft" THEN <<"structure_comfort_soft">>
    ELSE IF mode = "comfort_calm" THEN <<"structure_comfort_calm">>
    ELSE << >>

\* lines 1838-1928 of agent_chat: the mode is normalized, the system prompt
\* built and the user message is the instruction followed by req.message
ChatPrompt_TemplateOnly(req_mode, message) ==
    LET mode == NormalizeMode(req_mode) IN
    [system_prompt |-> build_system_prompt(mode),
     user_message  |-> IF Template(mode) = << >> THEN <<message>>
                       ELSE Template(mode)]
ChatPrompt(req_mode, message) ==
    LET mode == NormalizeMode(req_mode) IN
    [system_prompt |-> build_system_prompt(mode),
     user_message  |-> Template(mode) \o <<message>>]

\* the messages argument of client.chat.completions.create in call_llm
ProviderMessages(system_prompt, user_message) ==
    <<[role |-> "system", content |-> system_prompt],
      [role |-> "user", content |-> user_message]>>

(* ------------------------- history ------------------------------------ *)
NoBatch == [size |-> 0, fresh |-> TRUE, admit |-> 0, reject |-> 0,
            created |-> 0, reset1 |-> 0]

\* the window of user_id after a check_quota call at t that took store to
\* store2 and raised exc: a written record with a new reset opens a window
\* at t; another admitted call inside [start, start + 24h) is counted in it
\* (rejected: a call has been rejected since the window opened)
WindowAfter(win, store, store2, user_id, t, exc) ==
    IF exc # None
      THEN IF user_id \in DOMAIN win
             THEN Put(win, user_id, [win[user_id] EXCEPT !.rejected = TRUE])
             ELSE win
    ELSE IF user_id \notin DOMAIN store
            \/ store2[user_id].reset # store[user_id].reset
      THEN Put(win, user_id, [start |-> t, admitted |-> 1, rejected |-> FALSE])
      ELSE IF win[user_id].start <= t /\ t < win[user_id].start + OneDay
        THEN Put(win, user_id, [win[user_id] EXCEPT !.admitted = @ + 1])
        ELSE win

BatchAfter(b, store2, user_id, exc) ==
    IF b.size = 0 THEN b
    ELSE IF exc # None THEN [b EXCEPT !.reject = @ + 1]
    ELSE IF store2[user_id].count = 1
      THEN [b EXCEPT !.admit = @ + 1, !.created = @ + 1,
                     !.reset1 = IF b.created = 0 THEN store2[user_id].reset ELSE @]
      ELSE [b EXCEPT !.admit = @ + 1]

\* the browser sessions that have the playground page open
Sessions == {"s1", "s2"}

\* the log of admitted calls when it is kept, none admitted yet:
\* at[t] = the calls admitted at clock value t;
\* by[s] = the calls of session s admitted since the record was last
\* created or replaced
NoLog == << >>
EmptyLogAt == <<[at |-> [t \in 0..MaxClock |-> 0]]>>
EmptyLogBy == <<[by |-> [s \in Sessions |-> 0]]>>

\* the log after a check_quota call at t for the request req that raised exc
\* and left rec as the record of the identity
LogAfter(l, req, t, exc, rec) ==
    IF l = NoLog \/ exc # None THEN l
    ELSE IF "at" \in DOMAIN l[1]
      THEN <<[at |-> [l[1].at EXCEPT ![t] = @ + 1]]>>
      ELSE <<[by |-> [s \in Sessions |->
                        (IF rec.count = 1 THEN 0 ELSE l[1].by[s])
                        + (IF s = req.session THEN 1 ELSE 0)]]>>

\* the page as DOMContentLoaded leaves it: var history = []; var
\* historyIndex = -1; no fetch under way, the input box empty
NewPage ==
    [history |-> << >>, historyIndex |-> -1, fetches |-> << >>,
     input |-> << >>, mode |-> "daily"]

(* ------------------------- actions ------------------------------------ *)
Idle == << >>

\* a chat request of user_id reaches the server
Waiting == UNION {{u} \X (1..pending[u]) : u \in Users}

Arrive(u) ==
    /\ Cardinality(Waiting) < MaxPending
    /\ pending' = [pending EXCEPT ![u] = @ + 1]
    /\ UNCHANGED <<usage, now, loop, llm_configured, tts_configured, window, batch, probe,
                   log, page>>

\* the requests the specifications send: [mode, message]
Messages == {"m1", "m2"}
PlainRequests == {[mode |-> "daily", message |-> "m1"]}

\* check_quota(req.user_id) as the first statement of agent_chat: its
\* HTTPException leaves the handler, otherwise the handler goes on
AfterQuota_Swallowed(exc) == "call_llm"
AfterQuota(exc) == IF exc = None THEN "call_llm" ELSE "respond"

\* had a call of user_id been rejected in its current window (history)
RejectedBefore(win, user_id) ==
    IF user_id \in DOMAIN win THEN win[user_id].rejected ELSE FALSE

\* POST /agent/chat: the body is validated, then agent_chat runs up to the
\* call of call_llm: check_quota(req.user_id), and either the 429 propagates
\* or the prompt is built
AgentChat(u, req) ==
    /\ loop = Idle
    /\ pending[u] > 0
    /\ pending' = [pending EXCEPT ![u] = @ - 1]
    /\ IF ~ValidRequest(req)
         THEN /\ loop' = Some([kind |-> "chat", user_id |-> u, req |-> req,
                               now |-> now, info |-> None,
                               rejected_before |-> FALSE, quota |-> "none",
                               system_prompt |-> "", user_message |-> << >>,
                               provider_calls |-> 0, sent |-> << >>,
                               outcome |-> "none", generated |-> None,
                               reply |-> None,
                               pc |-> "respond",
                               response |-> Some(ValidationError)])
              /\ UNCHANGED <<usage, window, batch, log>>
         ELSE LET r == check_quota(usage, u, now)
                  p == ChatPrompt(req.mode, req.message) IN
              /\ usage' = r.usage
              /\ loop' = Some([kind |-> "chat", user_id |-> u, req |-> req,
                               now |-> now, info |-> Get(usage, u),
                               rejected_before |-> RejectedBefore(window, u),
                               quota |-> IF r.exc = None THEN "admit" ELSE "reject",
                               system_prompt |->
                                   IF r.exc = None THEN p.system_prompt ELSE "",
                               user_message |->
                                   IF r.exc = None THEN p.user_message ELSE << >>,
                               provider_calls |-> 0, sent |-> << >>,
                               outcome |-> "none", generated |-> None,
                               reply |-> None,
                               pc |-> AfterQuota(r.exc),
                               response |-> r.exc])
              /\ window' = WindowAfter(window, usage, r.usage, u, now, r.exc)
              /\ batch' = BatchAfter(batch, r.usage, u, r.exc)
              /\ log' = LogAfter(log, req, now, r.exc, r.usage[u])
    /\ UNCHANGED <<now, llm_configured, tts_configured, probe, page>>

\* reply = await call_llm(system_prompt, user_message), up to the provider
\* call: without configuration the HTTPException(500) leaves the handler;
\* otherwise client.chat.completions.create is called, and the handler (and
\* with it the event loop) waits inside that synchronous call
CallLLM ==
    /\ loop # Idle
    /\ loop[1].kind = "chat"
    /\ loop[1].pc = "call_llm"
    /\ IF ~llm_configured
         THEN loop' = Some([loop[1] EXCEPT
                  !.pc = "respond",
                  !.response = Some(call_llm(llm_configured, "ok"))])
         ELSE loop' = Some([loop[1] EXCEPT
                  !.pc = "provider",
                  !.provider_calls = @ + 1,
                  !.sent = ProviderMessages(loop[1].system_prompt,
                                           loop[1].user_message)])
    /\ UNCHANGED <<usage, now, pending, llm_configured, tts_configured, window, batch, probe,
                   log, page>>

\* what the handler does when the provider call has ended: it returns the
\* reply or raises the HTTPException(500); there is no second attempt
AfterProvider_Retry(outcome) == IF outcome = "error" THEN "call_llm" ELSE "respond"
AfterProvider(outcome) == "respond"

\* the store after the provider call has ended: no statement of call_llm or
\* of the rest of agent_chat touches _usage
UsageAfterProvider_Refund(store, user_id, outcome) ==
    IF outcome = "error"
      THEN Put(store, user_id, [store[user_id] EXCEPT !.count = @ - 1])
      ELSE store
UsageAfterProvider(store, user_id, outcome) == store

\* client.chat.completions.create ends with outcome (and, when it is "ok",
\* with the generated text): call_llm returns the content or raises, and
\* agent_chat returns ChatResponse(reply=reply)
ProviderReturns(outcome, text) ==
    /\ loop # Idle
    /\ loop[1].kind = "chat"
    /\ loop[1].pc = "provider"
    /\ loop' = Some([loop[1] EXCEPT
                  !.pc = AfterProvider(outcome),
                  !.outcome = outcome,
                  !.generated = Content(outcome, text),
                  !.reply = Reply(outcome, text),
                  !.response = Some(call_llm(llm_configured, outcome))])
    /\ usage' = UsageAfterProvider(usage, loop[1].user_id, outcome)
    /\ UNCHANGED <<now, pending, llm_configured, tts_configured, window, batch, probe,
                   log, page>>

\* the response leaves and the event loop is free again
Respond ==
    /\ loop # Idle
    /\ loop[1].pc = "respond"
    /\ loop' = Idle
    /\ UNCHANGED <<usage, now, pending, llm_configured, tts_configured, window, batch, probe,
                   log, page>>

\* the clock advances
Tick ==
    /\ now < MaxClock
    /\ now' = now + 1
    /\ UNCHANGED <<usage, pending, loop, llm_configured, tts_configured, window, batch, probe,
                   log, page>>

(* ------------------------- POST /tts ---------------------------------- *)
TTSNotConfigured ==
    [status_code |-> 500, detail |-> {"TTS not configured"}, headers |-> {}]
TTSQuota ==
    [status_code |-> 402, detail |-> {"voice_quota_exhausted_text_only"},
     headers |-> {}]
TTSFailed ==
    [status_code |-> 500, detail |-> {"TTS failed", "provider_error_text"},
     headers |-> {}]
AudioResponse ==
    [status_code |-> 200, detail |-> {"audio/mpeg"}, headers |-> {}]

\* how client.audio.speech.create can end: audio ("ok"), or an exception,
\* named by what its text str(e) holds: the error code insufficient_quota,
\* the sentence "You exceeded your current quota", or neither ("error")
SpeechOutcomes ==
    {"ok", "insufficient_quota", "You exceeded your current quota", "error"}

\* `"insufficient_quota" in msg or "You exceeded your current quota" in msg`
IsQuotaError_CodeOnly(outcome) == outcome = "insufficient_quota"
IsQuotaError(outcome) ==
    outcome \in {"insufficient_quota", "You exceeded your current quota"}

\* tts: the response the handler ends with
tts(configured, outcome) ==
    IF ~configured THEN TTSNotConfigured
    ELSE IF outcome = "ok" THEN AudioResponse
    ELSE IF IsQuotaError(outcome) THEN TTSQuota
    ELSE TTSFailed

\* the store as tts leaves it: no statement of tts touches _usage
UsageAfterTts_Counted(store) == check_quota(store, "tts", 0).usage
UsageAfterTts(store) == store

\* tts up to the provider call: without configuration the HTTPException(500)
\* leaves the handler; otherwise client.audio.speech.create is called and the
\* handler waits inside that synchronous call
Tts ==
    /\ loop = Idle
    /\ IF ~tts_configured
         THEN loop' = Some([kind |-> "tts", provider_calls |-> 0,
                            outcome |-> "none", pc |-> "respond",
                            response |-> Some(tts(tts_configured, "ok"))])
         ELSE loop' = Some([kind |-> "tts", provider_calls |-> 1,
                            outcome |-> "none", pc |-> "provider",
                            response |-> None])
    /\ usage' = UsageAfterTts(usage)
    /\ UNCHANGED <<now, pending, llm_configured, tts_configured, window, batch, probe,
                   log, page>>

TtsReturns(outcome) ==
    /\ loop # Idle
    /\ loop[1].kind = "tts"
    /\ loop[1].pc = "provider"
    /\ loop' = Some([loop[1] EXCEPT
                  !.pc = AfterProvider(outcome),
                  !.outcome = outcome,
                  !.response = Some(tts(tts_configured, outcome))])
    /\ UNCHANGED <<usage, now, pending, llm_configured, tts_configured, window, batch,
                   probe, log, page>>

(* ------------------------- GET / and the playground pages ------------- *)
\* read_root, playground and playground_mobile are plain `def` handlers:
\* they run in the thread pool, return a constant and change nothing
ReadRoot ==
    UNCHANGED vars

Playground ==
    UNCHANGED vars

(* ------------------------- the playground page: send() ---------------- *)
\* the user_id in the body of the fetch of send():
\* JSON.stringify({ user_id: "web-playground", mode: mode, message: text })
PlaygroundUserId_PerSession(session) == session
PlaygroundUserId(session) == "web-playground"

\* the identities the requests of the pages carry
PlaygroundIds == {PlaygroundUserId(s) : s \in Sessions}

\* the request of a send() in the page of session, as agent_chat gets it;
\* session names the connection it came on
PlaygroundRequest(session) ==
    [mode |-> "daily", message |-> "m1", session |-> session]

\* the requests received and not yet started
PendingTotal ==
    Cardinality(UNION {{u} \X (1..pending[u]) : u \in DOMAIN pending})

\* send() in the page of session: the POST reaches the server
PlaygroundSend(session) ==
    /\ PendingTotal < MaxPending
    /\ pending' = [pending EXCEPT ![PlaygroundUserId(session)] = @ + 1]
    /\ UNCHANGED <<usage, now, loop, llm_configured, tts_configured, window, batch, probe,
                   log, page>>

(* ------------------------- the playground page: history -------------- *)
\* what the user can have in the input box (sequences of characters) and in
\* the mode selector
PageInputs == {<< >>, <<" ">>, <<"m">>, <<" ", "m", " ">>}
PageModes == {"daily", "kansai"}

\* String.prototype.trim
RECURSIVE TrimLeft(_)
TrimLeft(str) ==
    IF str # << >> /\ Head(str) = " " THEN TrimLeft(Tail(str)) ELSE str
RECURSIVE TrimRight(_)
TrimRight(str) ==
    IF str # << >> /\ str[Len(str)] = " "
      THEN TrimRight(SubSeq(str, 1, Len(str) - 1))
      ELSE str
Trim(str) == TrimRight(TrimLeft(str))

\* how the fetch of send() can settle: a JSON body with a reply (the reply
\* may be the empty string), a JSON body without one (an error with
\* `detail`), or a body res.json() cannot parse / a network error
FetchAnswers ==
    {[json |-> TRUE, reply |-> Some("text")], [json |-> TRUE, reply |-> Some("")],
     [json |-> TRUE, reply |-> None], [json |-> FALSE, reply |-> None]}

\* var reply = data.reply || JSON.stringify(data, null, 2)
DisplayedReply(data) ==
    IF data.reply # None /\ data.reply[1] # ""
      THEN data.reply[1]
      ELSE IF data.reply = None THEN "json_of_detail" ELSE "json_of_empty_reply"

\* historyIndex = history.length - 1, after the push
IndexAfterPush_Length(history) == Len(history)
IndexAfterPush(history) == Len(history) - 1

\* loadHistory(index); JavaScript indexes the array from 0
loadHistory(p, index) ==
    IF index < 0 \/ index >= Len(p.history) THEN p
    ELSE [p EXCEPT !.historyIndex = index,
                   !.mode = p.history[index + 1].mode,
                   !.input = p.history[index + 1].input]

\* the user edits the input box
TypeInput(value) ==
    /\ page' = [page EXCEPT !.input = value]
    /\ UNCHANGED <<usage, now, pending, loop, llm_configured, tts_configured, window,
                   batch, probe, log>>

\* the user picks a mode
SelectMode(mode) ==
    /\ page' = [page EXCEPT !.mode = mode]
    /\ UNCHANGED <<usage, now, pending, loop, llm_configured, tts_configured, window,
                   batch, probe, log>>

\* send(): nothing when the trimmed input is empty; otherwise the fetch
\* starts with the trimmed text and the selected mode
Send ==
    /\ Len(page.fetches) < MaxFetches
    /\ Len(page.history) + Len(page.fetches) < MaxHistory
    /\ page' = IF Trim(page.input) = << >> THEN page
               ELSE [page EXCEPT !.fetches =
                        Append(@, [mode |-> page.mode, input |-> Trim(page.input)])]
    /\ UNCHANGED <<usage, now, pending, loop, llm_configured, tts_configured, window,
                   batch, probe, log>>

\* the i-th fetch under way settles with answer: the .then callbacks push
\* the entry and move historyIndex to it, or .catch shows the error
FetchSettles(i, answer) ==
    /\ i \in 1..Len(page.fetches)
    /\ LET f == page.fetches[i]
           rest == SubSeq(page.fetches, 1, i - 1)
                   \o SubSeq(page.fetches, i + 1, Len(page.fetches))
           pushed == Append(page.history,
                            [mode |-> f.mode, input |-> f.input,
                             reply |-> DisplayedReply(answer)]) IN
       page' = IF answer.json
                 THEN [page EXCEPT !.fetches = rest,
                                   !.history = pushed,
                                   !.historyIndex = IndexAfterPush(pushed)]
                 ELSE [page EXCEPT !.fetches = rest]
    /\ UNCHANGED <<usage, now, pending, loop, llm_configured, tts_configured, window,
                   batch, probe, log>>

\* function showPrev() { if (historyIndex > 0) loadHistory(historyIndex - 1); }
ShowPrev ==
    /\ page' = IF page.historyIndex > 0
                 THEN loadHistory(page, page.historyIndex - 1)
                 ELSE page
    /\ UNCHANGED <<usage, now, pending, loop, llm_configured, tts_configured, window,
                   batch, probe, log>>

\* function showNext() { if (historyIndex >= 0 && historyIndex <
\* history.length - 1) loadHistory(historyIndex + 1); }
ShowNext ==
    /\ page' = IF page.historyIndex >= 0
                    /\ page.historyIndex < Len(page.history) - 1
                 THEN loadHistory(page, page.historyIndex + 1)
                 ELSE page
    /\ UNCHANGED <<usage, now, pending, loop, llm_configured, tts_configured, window,
                   batch, probe, log>>

(* ------------------------- a direct call ------------------------------ *)
\* the strings build_system_prompt is called with
ModeInputs == LiteralModes \cup {"", "xyz", "DAILY", "daily "}

BuildSystemPrompt(mode) ==
    /\ probe' = Some([fn |-> "build_system_prompt", mode |-> mode,
                      system_prompt |-> build_system_prompt(mode)])
    /\ UNCHANGED <<usage, now, pending, loop, llm_configured, tts_configured, window,
                   batch, log, page>>

\* agent_chat called directly with a request of BurstUser (no validation of
\* the body, so any mode string): check_quota(req.user_id) first, whose 429
\* leaves the function with nothing built or sent; then the alias chain and
\* the prompt, and the messages call_llm hands to the client: without
\* configuration call_llm raises before client.chat.completions.create and
\* nothing is sent.  The rest of the function changes no state.
BuildChatPrompt(mode, message) ==
    LET r == check_quota(usage, BurstUser, now)
        p == ChatPrompt(mode, message) IN
    /\ usage' = r.usage
    /\ probe' = Some([fn |-> "chat_prompt", mode |-> mode, message |-> message,
                      quota |-> IF r.exc = None THEN "admit" ELSE "reject",
                      system_prompt |->
                          IF r.exc = None THEN p.system_prompt ELSE "",
                      user_message |->
                          IF r.exc = None THEN p.user_message ELSE << >>,
                      sent |-> IF r.exc = None /\ llm_configured
                                 THEN ProviderMessages(p.system_prompt,
                                                       p.user_message)
                                 ELSE << >>])
    /\ window' = WindowAfter(window, usage, r.usage, BurstUser, now, r.exc)
    /\ UNCHANGED <<now, pending, loop, llm_configured, tts_configured, batch, log,
                   page>>

(* ------------------------- specifications ----------------------------- *)
Init ==
    /\ usage = << >>
    /\ now = 0
    /\ pending = [u \in Users |-> 0]
    /\ loop = Idle
    /\ llm_configured \in BOOLEAN   \* LLM_API_KEY and LLM_MODEL, each may be unset or empty
    /\ tts_configured \in BOOLEAN   \* LLM_API_KEY and LLM_TTS_MODEL, likewise
    /\ window = << >>
    /\ batch = NoBatch
    /\ probe = << >>
    /\ log = NoLog
    /\ page = NewPage

Next ==
    \/ \E u \in Users : Arrive(u)
    \/ \E u \in Users, req \in PlainRequests : AgentChat(u, req)
    \/ CallLLM
    \/ \E outcome \in ProviderOutcomes, text \in Texts : ProviderReturns(outcome, text)
    \/ Respond
    \/ Tick

Spec == Init /\ [][Next]_vars

\* A burst: n requests of one identity are launched together, at a moment
\* when the identity is fresh (c = 0) or when its record, created at clock 0
\* with c admitted requests, has just expired.  No other request arrives.
InitBurst ==
    \E n \in 1..MaxBurst, c \in 0..FREE_LIMIT_PER_DAY :
        /\ usage = IF c = 0 THEN << >>
                   ELSE Put(<< >>, BurstUser, [count |-> c, reset |-> OneDay])
        /\ now = IF c = 0 THEN 0 ELSE OneDay
        /\ pending = [u \in Users |-> IF u = BurstUser THEN n ELSE 0]
        /\ loop = Idle
        /\ llm_configured \in BOOLEAN
        /\ tts_configured \in BOOLEAN
        /\ probe = << >>
        /\ log = NoLog
        /\ page = NewPage
        /\ window = IF c = 0 THEN << >>
                    ELSE Put(<< >>, BurstUser,
                             [start |-> 0, admitted |-> c, rejected |-> FALSE])
        /\ batch = [size |-> n, fresh |-> (c = 0), admit |-> 0, reject |-> 0,
                    created |-> 0, reset1 |-> 0]

NextBurst ==
    \/ \E u \in Users, req \in PlainRequests : AgentChat(u, req)
    \/ CallLLM
    \/ \E outcome \in ProviderOutcomes, text \in Texts : ProviderReturns(outcome, text)
    \/ Respond
    \/ Tick

SpecBurst == InitBurst /\ [][NextBurst]_vars

\* The handler's own steps are taken when they are enabled; when the
\* provider answers is up to the provider.
SpecBurstFair ==
    /\ SpecBurst
    /\ WF_vars(\E u \in Users, req \in PlainRequests : AgentChat(u, req))
    /\ WF_vars(CallLLM)
    /\ WF_vars(Respond)

\* The whole service, with one chat identity: chat requests of every mode
\* (and of modes outside the Literal), speech requests and the static pages.
ChatRequests == [mode : ModeInputs, message : Messages]

NextService ==
    \/ Arrive(BurstUser)
    \/ \E req \in ChatRequests : AgentChat(BurstUser, req)
    \/ CallLLM
    \/ \E outcome \in ProviderOutcomes, text \in Texts : ProviderReturns(outcome, text)
    \/ Tts
    \/ \E outcome \in SpeechOutcomes : TtsReturns(outcome)
    \/ ReadRoot
    \/ Playground
    \/ Respond
    \/ Tick

SpecService == Init /\ [][NextService]_vars

\* One identity sends chat requests; the admitted calls are logged with
\* their clock values.
InitDay ==
    /\ usage = << >>
    /\ now = 0
    /\ pending = [u \in Users |-> 0]
    /\ loop = Idle
    /\ llm_configured \in BOOLEAN
    /\ tts_configured \in BOOLEAN
    /\ window = << >>
    /\ batch = NoBatch
    /\ probe = << >>
    /\ log = EmptyLogAt
    /\ page = NewPage

NextDay ==
    \/ Arrive(BurstUser)
    \/ \E req \in PlainRequests : AgentChat(BurstUser, req)
    \/ CallLLM
    \/ \E outcome \in ProviderOutcomes, text \in Texts : ProviderReturns(outcome, text)
    \/ Respond
    \/ Tick

SpecDay == InitDay /\ [][NextDay]_vars

\* The playground pages of several browser sessions send chat requests to
\* the service; the admitted calls are logged with their sessions.
InitPlayground ==
    /\ usage = << >>
    /\ now = 0
    /\ pending = [u \in PlaygroundIds |-> 0]
    /\ loop = Idle
    /\ llm_configured \in BOOLEAN
    /\ tts_configured \in BOOLEAN
    /\ window = << >>
    /\ batch = NoBatch
    /\ probe = << >>
    /\ log = EmptyLogBy
    /\ page = NewPage

NextPlayground ==
    \/ \E s \in Sessions : PlaygroundSend(s)
    \/ \E s \in Sessions : AgentChat(PlaygroundUserId(s), PlaygroundRequest(s))
    \/ CallLLM
    \/ \E outcome \in ProviderOutcomes, text \in Texts : ProviderReturns(outcome, text)
    \/ Respond
    \/ Tick

SpecPlayground == InitPlayground /\ [][NextPlayground]_vars

\* One playground page: the user types, picks modes, sends, and walks
\* through the history while the fetches settle in any order.
NextPage ==
    \/ \E value \in PageInputs : TypeInput(value)
    \/ \E mode \in PageModes : SelectMode(mode)
    \/ Send
    \/ \E i \in 1..MaxFetches, answer \in FetchAnswers : FetchSettles(i, answer)
    \/ ShowPrev
    \/ ShowNext

SpecPage == Init /\ [][NextPage]_vars

\* build_system_prompt and agent_chat called directly with any of the input
\* strings, while the clock advances
NextPersona ==
    \/ \E mode \in ModeInputs : BuildSystemPrompt(mode)
    \/ \E mode \in ModeInputs, message \in Messages : BuildChatPrompt(mode, message)
    \/ Tick

SpecPersona == Init /\ [][NextPersona]_vars

(* ------------------------- properties --------------------------------- *)
\* the handler on the event loop, and what check_quota did in it
Busy == loop # Idle
Frame == loop[1]
Rejected(f) == f.response # None /\ f.response[1].status_code = 429
Admitted(f) == ~Rejected(f)
HadRecord(f) == f.info # None
Unexpired(f) == f.info # None /\ f.now < f.info[1].reset

\* C1: for every identity, the number of check_quota calls admitted inside
\* the 24h window that starts at the request which created or replaced its
\* record is at most FREE_LIMIT_PER_DAY.
C1_AtMostLimitPerWindow ==
    \A u \in DOMAIN window : window[u].admitted <= FREE_LIMIT_PER_DAY

\* a window with FREE_LIMIT_PER_DAY admitted requests, and one more request
\* inside it, rejected
C1_Witness ==
    /\ Busy
    /\ Rejected(Frame)
    /\ window[Frame.user_id].admitted = FREE_LIMIT_PER_DAY
    /\ Frame.now < window[Frame.user_id].start + OneDay

\* C2: when check_quota runs for an identity whose record has
\* now >= reset_at, the call is admitted whatever the old count was, and
\* the record it leaves has count = 1.
C2_ResetAdmits ==
    (Busy /\ HadRecord(Frame) /\ Frame.now >= Frame.info[1].reset)
        => (Admitted(Frame) /\ usage[Frame.user_id].count = 1)

\* an identity that had used up its window is admitted after reset_at
C2_Witness ==
    /\ Busy
    /\ HadRecord(Frame)
    /\ Frame.info[1].count = FREE_LIMIT_PER_DAY
    /\ Frame.now >= Frame.info[1].reset
    /\ Admitted(Frame)
    /\ usage[Frame.user_id].count = 1

\* C3: a check_quota call that finds no record, or finds now at or past
\* reset_at, writes exactly [count = 1, reset_at = now + 24h] and admits.
C3_CreateOrReplace ==
    (Busy /\ (~HadRecord(Frame) \/ Frame.now >= Frame.info[1].reset))
        => /\ usage[Frame.user_id] = [count |-> 1, reset |-> Frame.now + OneDay]
           /\ Admitted(Frame)

\* the boundary: the call arrives exactly at reset_at
C3_Witness ==
    /\ Busy
    /\ HadRecord(Frame)
    /\ Frame.now = Frame.info[1].reset
    /\ usage[Frame.user_id] = [count |-> 1, reset |-> Frame.now + OneDay]

\* C4: check_quota rejects exactly when a record exists, now < reset_at and
\* count >= limit; with an unexpired record below the limit it admits and
\* raises count by exactly 1 (reset_at kept).
C4_RejectExactlyAtLimit ==
    Busy =>
        /\ Rejected(Frame) <=>
              (Unexpired(Frame) /\ Frame.info[1].count >= FREE_LIMIT_PER_DAY)
        /\ (Unexpired(Frame) /\ Frame.info[1].count < FREE_LIMIT_PER_DAY)
              => /\ Admitted(Frame)
                 /\ usage[Frame.user_id] =
                      [count |-> Frame.info[1].count + 1, reset |-> Frame.info[1].reset]

\* a call that finds an unexpired record at the limit: rejected, record untouched
C4_Witness ==
    /\ Busy
    /\ Unexpired(Frame)
    /\ Frame.info[1].count = FREE_LIMIT_PER_DAY
    /\ Rejected(Frame)
    /\ usage[Frame.user_id] = Frame.info[1]

\* C5: every rejection carries reset timing derived from the record's
\* reset_at: the 429 tells the caller when the quota resets, in its message
\* or in a Retry-After header.
C5_RejectionCarriesResetTiming ==
    (Busy /\ Rejected(Frame))
        => \/ "Retry-After" \in Frame.response[1].headers
           \/ "quota_resets_at" \in Frame.response[1].detail

\* C6: every record in the store has 0 <= count <= FREE_LIMIT_PER_DAY.
C6_CountWithinLimit ==
    \A u \in DOMAIN usage :
        0 <= usage[u].count /\ usage[u].count <= FREE_LIMIT_PER_DAY

\* a record at the limit, seen by a call that is rejected and leaves it there
C6_Witness ==
    /\ Busy
    /\ Rejected(Frame)
    /\ usage[Frame.user_id].count = FREE_LIMIT_PER_DAY

\* C7: each of the count requests admitted since a record was created or
\* replaced was admitted at a clock value strictly before its reset_at: the
\* count admitted requests are those of the window that ends at reset_at,
\* and an admitted call reads a clock below the reset_at of its record.
C7_AdmittedBeforeReset ==
    /\ \A u \in DOMAIN usage :
          /\ window[u].admitted = usage[u].count
          /\ window[u].start + OneDay = usage[u].reset
    /\ (Busy /\ Admitted(Frame)) => Frame.now < usage[Frame.user_id].reset

\* a request admitted into an open window at a later clock value than the
\* request that opened it
C7_Witness ==
    /\ Busy
    /\ Admitted(Frame)
    /\ Unexpired(Frame)
    /\ Frame.now > window[Frame.user_id].start
    /\ usage[Frame.user_id].count >= 2

\* C8: N requests of one fresh identity launched together: however their
\* handlers and the clock are scheduled, once all N are handled inside the
\* window the first of them opened, exactly min(N, limit) were admitted and
\* the rest rejected.
BurstHandled ==
    /\ batch.size > 0
    /\ pending[BurstUser] = 0
    /\ batch.admit + batch.reject = batch.size
    /\ now < batch.reset1

C8_BurstAdmitsMin ==
    (batch.fresh /\ BurstHandled)
        => /\ batch.admit = Min(batch.size, FREE_LIMIT_PER_DAY)
           /\ batch.reject = batch.size - Min(batch.size, FREE_LIMIT_PER_DAY)

\* a burst larger than the limit, fully handled
C8_Witness ==
    /\ batch.fresh
    /\ BurstHandled
    /\ batch.size > FREE_LIMIT_PER_DAY
    /\ batch.reject > 0

\* C9: requests of one identity launched together after its reset_at has
\* passed: as long as the clock is inside the window the first of them
\* opens, exactly one of them has written the count = 1 record, the record
\* is still that one, its count is the number of the burst's requests
\* admitted so far, and it is at most the limit.
C9_WindowCreatedOnce ==
    (~batch.fresh /\ batch.created >= 1 /\ now < batch.reset1)
        => /\ batch.created = 1
           /\ usage[BurstUser].reset = batch.reset1
           /\ usage[BurstUser].count = batch.admit
           /\ usage[BurstUser].count <= FREE_LIMIT_PER_DAY

\* an expired record, and at least three requests of the burst handled: one
\* replaced the record, the others counted against it
C9_Witness ==
    /\ ~batch.fresh
    /\ batch.created = 1
    /\ batch.admit >= 3
    /\ now < batch.reset1
    /\ usage[BurstUser].count = batch.admit

\* C10: each user_id has 5 free chat requests per day: inside one window
\* the calls that find a count below 5 are admitted and the call that finds
\* count = 5 (the sixth) is rejected with 429.
C10_SixthCallRejected ==
    (Busy /\ Unexpired(Frame))
        => IF Frame.info[1].count < DocumentedLimit
             THEN Admitted(Frame)
             ELSE Rejected(Frame)

\* the handler on the event loop is agent_chat
Chat == Busy /\ Frame.kind = "chat"

\* C11: a reject is sticky until reset: once a request of an identity has
\* been rejected in a window, a later request of that identity is rejected
\* when its clock value is before reset_at, and admitted (into a new window,
\* count = 1) when it is at or after reset_at.
C11_RejectStickyUntilReset ==
    (Chat /\ Frame.rejected_before)
        => IF Frame.now < Frame.info[1].reset
             THEN Frame.quota = "reject" /\ usage[Frame.user_id] = Frame.info[1]
             ELSE Frame.quota = "admit" /\ usage[Frame.user_id].count = 1

\* a second rejection, at a later clock value than the start of the window
C11_Witness ==
    /\ Chat
    /\ Frame.rejected_before
    /\ Frame.quota = "reject"
    /\ Frame.now > window[Frame.user_id].start
    /\ Frame.now < Frame.info[1].reset

\* C12: the quota decision precedes the provider call: a request that
\* check_quota rejected makes no provider call and ends with the 429, and a
\* request that has made a provider call was admitted before.
C12_QuotaBeforeProvider ==
    Chat =>
        /\ Frame.provider_calls > 0 => Frame.quota = "admit"
        /\ Frame.quota = "reject"
              => /\ Frame.provider_calls = 0
                 /\ Frame.pc = "respond"
                 /\ Frame.response = Some(QuotaExceeded)

\* an admitted request waiting in its provider call
C12_Witness ==
    /\ Chat
    /\ Frame.quota = "admit"
    /\ Frame.pc = "provider"
    /\ Frame.provider_calls = 1

\* the record check_quota wrote for the request on the event loop
WrittenByAdmit(f) ==
    IF Unexpired(f)
      THEN [count |-> f.info[1].count + 1, reset |-> f.info[1].reset]
      ELSE [count |-> 1, reset |-> f.now + OneDay]

\* C13: a quota slot is never refunded: when an admitted request ends in a
\* provider failure, the record of its identity is still the one the admit
\* wrote.
C13_NoRefundOnFailure ==
    (Chat /\ Frame.response = Some(LLMFailed))
        => /\ Frame.quota = "admit"
           /\ usage[Frame.user_id] = WrittenByAdmit(Frame)

\* the request that took the last slot of the window fails at the provider
C13_Witness ==
    /\ Chat
    /\ Frame.response = Some(LLMFailed)
    /\ usage[Frame.user_id].count = FREE_LIMIT_PER_DAY
    /\ Frame.info[1].count = FREE_LIMIT_PER_DAY - 1

C15_OthersProceedDuringProviderCall ==
    \A v \in Users :
        (Busy /\ Frame.pc = "provider" /\ pending[v] > 0)
            => ENABLED (\E req \in PlainRequests : AgentChat(v, req))

\* C16: no retries: a chat request and a speech request make at most one
\* provider call each, and a request whose provider call failed has made
\* exactly one call and is answered with that failure.
C16_AtMostOneProviderCall ==
    Busy =>
        /\ Frame.provider_calls <= 1
        /\ Frame.response \in {Some(LLMFailed), Some(TTSFailed), Some(TTSQuota)}
              => Frame.provider_calls = 1 /\ Frame.pc = "respond"

\* a speech request whose one provider call failed
C16_Witness ==
    /\ Busy
    /\ Frame.kind = "tts"
    /\ Frame.response = Some(TTSFailed)
    /\ Frame.provider_calls = 1

\* the canonical mode of each deprecated alias
AliasCanonical ==
    [tutor |-> "daily", otaku_waifu |-> "comfort_soft",
     otaku_boyfriend |-> "comfort_calm"]

\* the pair agent_chat builds for a canonical mode and a message
CanonicalPair(mode, message) ==
    [system_prompt |-> PersonaPrompt(mode),
     user_message  |-> Template(mode) \o <<message>>]

\* C17: for a deprecated alias the chat pipeline builds the same (system
\* instruction, wrapped message) pair as for its canonical mode, and for a
\* canonical mode the pair of that very mode.
C17_AliasTransparent ==
    (Chat /\ Frame.quota = "admit") =>
        LET m == Frame.req.mode
            built == [system_prompt |-> Frame.system_prompt,
                      user_message  |-> Frame.user_message] IN
        /\ m \in DOMAIN AliasCanonical
              => built = CanonicalPair(AliasCanonical[m], Frame.req.message)
        /\ m \in PersonaModes
              => built = CanonicalPair(m, Frame.req.message)

\* a request with the alias otaku_waifu gets the comfort_soft persona
C17_Witness ==
    /\ Chat
    /\ Frame.req.mode = "otaku_waifu"
    /\ Frame.system_prompt = "kotonoha_comfort_soft"
    /\ Frame.user_message = <<"structure_comfort_soft", Frame.req.message>>

\* C18: build_system_prompt returns a non-empty instruction for every input
\* string; the empty string and unrecognized strings get the generic one.
C18_PersonaTotal ==
    (probe # << >> /\ probe[1].fn = "build_system_prompt")
        => /\ probe[1].system_prompt # ""
           /\ probe[1].mode \notin LiteralModes
                 => probe[1].system_prompt = "generic_japanese_learning_assistant"

\* the empty string resolved to the generic instruction
C18_Witness ==
    /\ probe # << >>
    /\ probe[1].fn = "build_system_prompt"
    /\ probe[1].mode = ""
    /\ probe[1].system_prompt = "generic_japanese_learning_assistant"

\* C19: a chat request whose mode is an unrecognized string is accepted by
\* the endpoint: it reaches check_quota and is not answered with a
\* validation error.
C19_UnknownModeServed ==
    (Chat /\ Frame.req.mode \notin LiteralModes)
        => /\ Frame.quota # "none"
           /\ Frame.response # Some(ValidationError)

\* C20: check_quota is the only operation that writes the quota store: a
\* step that changes the store is the check_quota call of a chat request;
\* speech requests, the static pages and the provider call leave it as it is.
C20_OnlyCheckQuotaWrites ==
    [][usage' # usage
          => \E u \in Users :
                /\ pending'[u] = pending[u] - 1
                /\ usage' = check_quota(usage, u, now).usage]_vars

\* a speech request answered while the store holds a record
C20_Witness ==
    /\ Busy
    /\ Frame.kind = "tts"
    /\ Frame.pc = "respond"
    /\ BurstUser \in DOMAIN usage
    /\ usage[BurstUser].count >= 2

\* the handler on the event loop is tts
Speech == Busy /\ Frame.kind = "tts"

\* C21: on /tts a provider failure that reports quota exhaustion gives the
\* 402 error and every other provider failure gives the 500 "TTS failed"
\* error, never the other way round.
C21_SpeechQuotaDistinct ==
    (Speech /\ Frame.pc = "respond" /\ Frame.provider_calls = 1) =>
        /\ Frame.outcome \in {"insufficient_quota", "You exceeded your current quota"}
              <=> Frame.response = Some(TTSQuota)
        /\ Frame.outcome = "error" <=> Frame.response = Some(TTSFailed)
        /\ Frame.response[1].status_code = 402 <=> Frame.response = Some(TTSQuota)

\* the provider's failure carries the sentence and not the error code
C21_Witness ==
    /\ Speech
    /\ Frame.outcome = "You exceeded your current quota"
    /\ Frame.response = Some(TTSQuota)

\* C22: without provider configuration, a chat request that reaches call_llm
\* and a speech request end with their configuration error (500), and no
\* provider call is made.
C22_ConfigMissingNoCall ==
    /\ (Chat /\ ~llm_configured)
          => /\ Frame.provider_calls = 0
             /\ Frame.pc # "provider"
             /\ (Frame.quota = "admit" /\ Frame.pc = "respond")
                   => Frame.response = Some(ConfigMissing)
    /\ (Speech /\ ~tts_configured)
          => /\ Frame.provider_calls = 0
             /\ Frame.pc = "respond"
             /\ Frame.response = Some(TTSNotConfigured)

\* an admitted chat request answered with the configuration error
C22_Witness ==
    /\ Chat
    /\ ~llm_configured
    /\ Frame.quota = "admit"
    /\ Frame.response = Some(ConfigMissing)
    /\ Frame.provider_calls = 0

\* the structured outcomes of a chat request
StructuredOutcomes ==
    {Some(ChatResponse), Some(QuotaExceeded), Some(ConfigMissing), Some(LLMFailed)}

\* C23: every chat request with a well-formed body ends in one of the
\* structured outcomes: a reply, the rate-limit error, the configuration
\* error or the upstream-failure error; whatever the provider call does
\* (a completion with no text content included) that is not a reply is
\* mapped to the upstream-failure error.
C23_StructuredOutcome ==
    (Chat /\ ValidRequest(Frame.req) /\ Frame.pc = "respond") =>
        /\ Frame.response \in StructuredOutcomes
        /\ (Frame.provider_calls = 1 /\ Frame.outcome # "ok")
              => Frame.response = Some(LLMFailed)

\* C24: when the provider call of an admitted chat request succeeds, the
\* reply returned to the caller is exactly the text the provider generated.
C24_ReplyVerbatim ==
    (Chat /\ Frame.outcome = "ok") =>
        /\ Frame.response = Some(ChatResponse)
        /\ Frame.reply = Frame.generated
        /\ Frame.reply # None

\* a generated text with surrounding blanks, returned as it is
C24_Witness ==
    /\ Chat
    /\ Frame.outcome = "ok"
    /\ Frame.generated = Some(" text ")
    /\ Frame.reply = Some(" text ")

\* C27: the provider receives the system instruction of the normalized mode
\* and a user content that is the mode's template followed by the caller's
\* message; without a template the user content is the caller's message.
\* A configured service sends exactly these two messages for every chat
\* request check_quota admits; for a rejected request, and on a service
\* without configuration, the provider receives nothing.
C27_ProviderReceivesWrappedMessage ==
    (probe # << >> /\ probe[1].fn = "chat_prompt") =>
        IF probe[1].quota = "admit" /\ llm_configured
          THEN LET mode == NormalizeMode(probe[1].mode)
                   system == probe[1].sent[1]
                   user == probe[1].sent[2] IN
               /\ Len(probe[1].sent) = 2
               /\ system = [role |-> "system",
                            content |-> build_system_prompt(mode)]
               /\ user.role = "user"
               /\ user.content = Template(mode) \o <<probe[1].message>>
               /\ Template(mode) = << >> => user.content = <<probe[1].message>>
          ELSE probe[1].sent = << >>

\* the alias tutor on a configured service: the four-part structure followed
\* by the message
C27_Witness ==
    /\ probe # << >>
    /\ probe[1].fn = "chat_prompt"
    /\ llm_configured
    /\ probe[1].quota = "admit"
    /\ Len(probe[1].sent) = 2
    /\ probe[1].mode = "tutor"
    /\ probe[1].sent[1].content = "kotonoha_daily"
    /\ probe[1].sent[2].content = <<"structure_four_parts", probe[1].message>>

\* the store with the record of user_id only
OwnStore(store, user_id) ==
    [k \in (DOMAIN store) \cap {user_id} |-> store[k]]

\* the step starts the handler of a chat request
StartsChat == loop = Idle /\ loop' # Idle /\ loop'[1].kind = "chat"

\* C25: identities are independent: a step that is not the check_quota call
\* of b leaves b's record (or its absence) as it is, and the decision and
\* the record written by the check_quota call of a are those check_quota
\* gives on a's own record and the clock alone.
C25_IdentitiesIndependent ==
    [][/\ \A b \in Users :
             pending'[b] >= pending[b] => Get(usage', b) = Get(usage, b)
       /\ IF StartsChat
            THEN LET a == loop'[1].user_id
                     own == check_quota(OwnStore(usage, a), a, now) IN
                 /\ loop'[1].quota = IF own.exc = None THEN "admit" ELSE "reject"
                 /\ Get(usage', a) = Get(own.usage, a)
            ELSE TRUE]_vars

\* u2 is admitted while u1 is at its limit
C25_Witness ==
    /\ Chat
    /\ Frame.user_id = "u2"
    /\ Frame.quota = "admit"
    /\ "u1" \in DOMAIN usage
    /\ usage["u1"].count = FREE_LIMIT_PER_DAY
    /\ usage["u2"].count < FREE_LIMIT_PER_DAY

\* C26: the store starts empty, gets the entry of an identity exactly at
\* that identity's first check_quota call, and never loses an entry.
C26_StoreOnlyGrows ==
    /\ usage = << >>
    /\ [][/\ DOMAIN usage \subseteq DOMAIN usage'
          /\ \A u \in Users :
                u \in (DOMAIN usage') \ (DOMAIN usage)
                    <=> (u \notin DOMAIN usage /\ pending'[u] < pending[u])]_vars

\* both identities stored, the record of u1 replaced after its expiry
C26_Witness ==
    /\ DOMAIN usage = Users
    /\ usage["u1"].reset > OneDay
    /\ usage["u2"].reset = OneDay

\* C28: a rejected check_quota call leaves the store unchanged: neither
\* count nor reset_at of the rejected identity (nor any other record) is
\* modified.
C28_RejectLeavesStore ==
    [][IF StartsChat
         THEN loop'[1].quota = "reject" => usage' = usage
         ELSE TRUE]_vars

\* a second rejection in a window whose reset_at is still start + 24h
C28_Witness ==
    /\ Chat
    /\ Frame.quota = "reject"
    /\ Frame.rejected_before
    /\ usage[Frame.user_id].count = FREE_LIMIT_PER_DAY
    /\ usage[Frame.user_id].reset = window[Frame.user_id].start + OneDay

\* C29: the window anchor is fixed: a write inside an unexpired window only
\* adds one to count; reset_at changes only when the record has expired and
\* is replaced, and then it is now + 24h, above the old reset_at.
C29_AnchorFixed ==
    [][\A u \in DOMAIN usage :
          /\ u \in DOMAIN usage'
          /\ usage'[u].reset # usage[u].reset
                => /\ now >= usage[u].reset
                   /\ usage'[u] = [count |-> 1, reset |-> now + OneDay]
                   /\ usage'[u].reset > usage[u].reset
          /\ (usage'[u] # usage[u] /\ now < usage[u].reset)
                => usage'[u] = [usage[u] EXCEPT !.count = @ + 1]]_vars

\* an admit inside the window of a record that replaced an expired one
C29_Witness ==
    /\ Chat
    /\ Unexpired(Frame)
    /\ Frame.quota = "admit"
    /\ Frame.info[1].reset > OneDay
    /\ usage[Frame.user_id] = [Frame.info[1] EXCEPT !.count = @ + 1]

\* C30: every record in the store has count >= 1, and while reset_at stays
\* the same count does not decrease.
C30_CountAtLeastOne ==
    /\ [](\A u \in DOMAIN usage : usage[u].count >= 1)
    /\ [][\A u \in DOMAIN usage :
             (u \in DOMAIN usage' /\ usage'[u].reset = usage[u].reset)
                 => usage'[u].count >= usage[u].count]_vars

\* a record that had several admits is replaced by one with count 1
C30_Witness ==
    /\ Chat
    /\ HadRecord(Frame)
    /\ ~Unexpired(Frame)
    /\ Frame.info[1].count > 1
    /\ usage[Frame.user_id].count = 1

\* the sum of f over the set S of its arguments
RECURSIVE SumOver(_, _)
SumOver(f, S) ==
    IF S = {} THEN 0
    ELSE LET x == CHOOSE y \in S : TRUE IN f[x] + SumOver(f, S \ {x})

\* the calls admitted at the clock values from..to
AdmittedIn(from, to) ==
    SumOver(log[1].at, {t \in 0..MaxClock : from <= t /\ t <= to})

\* C31: in any time interval of length 24h, wherever it starts, at most
\* 2 * FREE_LIMIT_PER_DAY requests of one identity are admitted.
C31_AtMostTwiceLimitInAnyDay ==
    \A t \in 0..MaxClock : AdmittedIn(t, t + OneDay) <= 2 * FREE_LIMIT_PER_DAY

\* more than the limit inside less than 24h: the rest of a window just
\* before its reset_at, a full new window at reset_at
C31_Witness ==
    /\ log[1].at[0] = 1
    /\ log[1].at[OneDay - 1] + log[1].at[OneDay] > FREE_LIMIT_PER_DAY
    /\ log[1].at[OneDay] = FREE_LIMIT_PER_DAY
    /\ AdmittedIn(0, OneDay) = 2 * FREE_LIMIT_PER_DAY

\* C33: every chat request of a playground page carries the identity
\* "web-playground": the pages of all browser sessions share one record, and
\* all of them together get at most FREE_LIMIT_PER_DAY requests admitted in
\* a window.
C33_PlaygroundSharesOneRecord ==
    /\ DOMAIN usage \subseteq {"web-playground"}
    /\ Chat => Frame.user_id = "web-playground"
    /\ \A u \in DOMAIN window : window[u].admitted <= FREE_LIMIT_PER_DAY
    /\ SumOver(log[1].by, Sessions) <= FREE_LIMIT_PER_DAY

\* the first request of session s2 is rejected: s1 has used the whole window
C33_Witness ==
    /\ Chat
    /\ Frame.req.session = "s2"
    /\ Frame.quota = "reject"
    /\ log[1].by["s2"] = 0
    /\ log[1].by["s1"] = FREE_LIMIT_PER_DAY

\* C32: the quota slot is consumed before the configuration check: a chat
\* request made while the provider configuration is missing is answered
\* with the configuration error after check_quota has created or
\* incremented the record of its identity, and once the window is used up
\* such a request is rejected, all without a provider call.
C32_SlotConsumedBeforeConfigCheck ==
    (Chat /\ ~llm_configured /\ Frame.pc = "respond") =>
        /\ Frame.provider_calls = 0
        /\ Frame.quota = "admit" =>
              /\ Frame.response = Some(ConfigMissing)
              /\ Frame.user_id \in DOMAIN usage
              /\ usage[Frame.user_id] = WrittenByAdmit(Frame)
        /\ Frame.quota = "reject" =>
              /\ Frame.response = Some(QuotaExceeded)
              /\ Frame.info[1].count = FREE_LIMIT_PER_DAY

\* without configuration, the request after FREE_LIMIT_PER_DAY requests of
\* one window is rejected
C32_Witness ==
    /\ Chat
    /\ ~llm_configured
    /\ Frame.quota = "reject"
    /\ window[Frame.user_id].admitted = FREE_LIMIT_PER_DAY
    /\ Frame.provider_calls = 0

\* historyIndex is -1 while history is empty, and an index of history
\* otherwise
HistoryIndexInBounds ==
    /\ Len(page.history) = 0 <=> page.historyIndex = -1
    /\ Len(page.history) > 0
          => 0 <= page.historyIndex /\ page.historyIndex < Len(page.history)

\* C34: in the playground page historyIndex is -1 exactly while history is
\* empty and otherwise 0 <= historyIndex < history.length, whatever sends
\* have completed and whatever previous/next clicks were made; a completed
\* send sets it to the last entry.
C34_HistoryIndexInBounds ==
    /\ []HistoryIndexInBounds
    /\ [][Len(page'.history) > Len(page.history)
             => page'.historyIndex = Len(page'.history) - 1]_vars

\* two entries, and the user has walked back to the first one
C34_Witness ==
    /\ Len(page.history) = 2
    /\ page.historyIndex = 0
    /\ page.fetches = << >>
    /\ page.input = page.history[1].input

====
